---------------------------- MODULE Spec2Model ----------------------------
(***************************************************************************)
(* A model of the padelgram chat bot (src/main.py): one ConversationHandler *)
(* with a start command as entry point, three message handlers registered  *)
(* for the CHOOSING state and an Exit fallback; a per-user user_data dict;  *)
(* and the lesson query, a blocking HTTP GET whose JSON answer is rendered  *)
(* as text.  Text is modelled as a sequence of one-character strings, so    *)
(* that pattern matching, joining and slicing are computed, not assumed.    *)
(***************************************************************************)
EXTENDS Integers, Sequences, FiniteSets, TLC

VARIABLES
    conversations,  \* per user: the ConversationHandler's state for that user
    user_data,      \* per user: context.user_data, an insertion-ordered dict
    inflight,       \* users whose handler is blocked in httpx.get
    turn,           \* the update handled last and what became of it
    sent,           \* the replies sent during that turn
    started,        \* history: the users whose start command was ever handled
    fmt_in,         \* argument of the formatter under test (SpecRender only)
    fmt_out         \* its result (SpecRender only)

vars == <<conversations, user_data, inflight, turn, sent, started, fmt_in, fmt_out>>

---------------------------------------------------------------------------
(* Bounds of the model.                                                    *)

NumUsers == 2
MaxItems == 2
MaxFacts == 2

Users == 1..NumUsers

---------------------------------------------------------------------------
(* Conversation states.  END is what a handler returns to end the          *)
(* conversation; the framework then drops the user's entry, so END also    *)
(* stands for "no conversation", before the first start command and after  *)
(* Exit.                                                                   *)

CHOOSING == 0
TYPING_REPLY == 1
TYPING_CHOICE == 2
DISPLAY_LESSON_INFO == 3
END == -1

---------------------------------------------------------------------------
(* Text helpers.                                                           *)

NL == <<"\n">>

UpperLetters == <<"A","B","C","D","E","F","G","H","I","J","K","L","M","N","O",
                  "P","Q","R","S","T","U","V","W","X","Y","Z">>
LowerLetters == <<"a","b","c","d","e","f","g","h","i","j","k","l","m","n","o",
                  "p","q","r","s","t","u","v","w","x","y","z">>

LowerChar(c) ==
    IF \E i \in 1..Len(UpperLetters) : UpperLetters[i] = c
    THEN LowerLetters[CHOOSE i \in 1..Len(UpperLetters) : UpperLetters[i] = c]
    ELSE c

\* str.lower()
Lower(s) == [i \in 1..Len(s) |-> LowerChar(s[i])]

\* s[:n]
Prefix(s, n) == SubSeq(s, 1, IF Len(s) < n THEN Len(s) ELSE n)

RECURSIVE Flatten(_)
Flatten(ss) == IF ss = <<>> THEN <<>> ELSE Head(ss) \o Flatten(Tail(ss))

\* sep.join(parts)
RECURSIVE StrJoin(_, _)
StrJoin(sep, parts) ==
    IF parts = <<>> THEN <<>>
    ELSE IF Len(parts) = 1 THEN parts[1]
    ELSE parts[1] \o sep \o StrJoin(sep, Tail(parts))

Digit(d) == <<"0", "1", "2", "3", "4", "5", "6", "7", "8", "9">>[d + 1]

\* str(n) of a non-negative integer
RECURSIVE IntToStr(_)
IntToStr(n) == IF n < 10 THEN <<Digit(n)>> ELSE IntToStr(n \div 10) \o <<Digit(n % 10)>>

---------------------------------------------------------------------------
(* A Python dict: a sequence of <<key, value>> pairs with distinct keys,    *)
(* in insertion order.                                                     *)

HasKey(d, k) == \E i \in 1..Len(d) : d[i][1] = k

DictGet(d, k) == d[CHOOSE i \in 1..Len(d) : d[i][1] = k][2]

\* d[k] = v: an existing key keeps its place
DictSet(d, k, v) ==
    IF HasKey(d, k)
    THEN [i \in 1..Len(d) |-> IF d[i][1] = k THEN <<k, v>> ELSE d[i]]
    ELSE Append(d, <<k, v>>)

\* del d[k]
RECURSIVE DictDel(_, _)
DictDel(d, k) ==
    IF d = <<>> THEN <<>>
    ELSE IF Head(d)[1] = k THEN Tail(d)
    ELSE <<Head(d)>> \o DictDel(Tail(d), k)

ChoiceKey == <<"c","h","o","i","c","e">>

\* The spec's view of user_data: the pending choice and the recorded facts.
HasPendingChoice(u) == HasKey(user_data[u], ChoiceKey)
pendingChoice(u) == DictGet(user_data[u], ChoiceKey)
facts(u) == DictDel(user_data[u], ChoiceKey)
FactKeys(u) == {facts(u)[i][1] : i \in 1..Len(facts(u))}

---------------------------------------------------------------------------
(* The keyboard and the fixed texts of the handlers.                       *)

reply_keyboardOld ==
    << <<<<"A","g","e">>, <<"F","a","v","o","u","r","i","t","e"," ","c","o","l","o",
                    "u","r">>>>,
       <<<<"N","u","m","b","e","r"," ","o","f"," ","s","i","b","l","i","n",
           "g","s">>, <<"S","o","m","e","t","h","i","n","g"," ",
                                   "e","l","s","e",".",".",".">>>>,
       <<<<"P","a","d","e","l"," ","l","e","s","s","o","n","s">>>>, <<<<"E","x","i","t">>>> >>

reply_keyboard == << <<<<"P","a","d","e","l"," ","l","e","s","s","o","n","s">>>>, <<<<"E","x","i","t">>>> >>

\* reply_markup of a reply: the menu, its removal, or none given
markup == [kind |-> "ReplyKeyboardMarkup", keyboard |-> reply_keyboard]
ReplyKeyboardRemove == [kind |-> "ReplyKeyboardRemove", keyboard |-> <<>>]
NoMarkup == [kind |-> "None", keyboard |-> <<>>]

Reply(text, reply_markup) == [text |-> text, reply_markup |-> reply_markup]

\* What a handler does: the new user_data, the reply, the returned state.
Result(data, reply, ret) == [data |-> data, reply |-> reply, ret |-> ret]

---------------------------------------------------------------------------
(* facts_to_str: "\n".join(facts).join(["\n", "\n"])                       *)

FactLine(e) == e[1] \o <<" ","-"," ">> \o e[2]

facts_to_strPerLine(d) ==
    Flatten([i \in 1..Len(d) |-> NL \o FactLine(d[i]) \o NL])

facts_to_str(d) ==
    LET fact_lines == [i \in 1..Len(d) |-> FactLine(d[i])]
    IN  StrJoin(StrJoin(NL, fact_lines), <<NL, NL>>)

---------------------------------------------------------------------------
(* The handlers that answer at once.                                       *)

startToTyping(d, text) ==
    Result(d, Reply(<<"H","i",","," ","w","h","a","t"," ","w","o","u","l","d",
                      " ","y","o","u"," ","l","i","k","e"," ","t","o"," ","k",
                      "n","o","w","?">>, markup), TYPING_CHOICE)

start(d, text) ==
    Result(d, Reply(<<"H","i",","," ","w","h","a","t"," ","w","o","u","l","d",
                      " ","y","o","u"," ","l","i","k","e"," ","t","o"," ","k",
                      "n","o","w","?">>, markup), CHOOSING)

regular_choice(d, text) ==
    Result(DictSet(d, ChoiceKey, text),
           Reply(<<"Y","o","u","r"," ">> \o Lower(text)
                 \o <<"?"," ","Y","e","s",","," ","I"," ","w","o","u","l","d",
                      " ","l","o","v","e"," ","t","o"," ","h","e","a","r"," ",
                      "a","b","o","u","t"," ","t","h","a","t","!">>, NoMarkup),
           TYPING_REPLY)

custom_choice(d, text) ==
    Result(d,
           Reply(<<"A","l","r","i","g","h","t",","," ","p","l","e","a","s",
                   "e"," ","s","e","n","d"," ","m","e"," ","t","h","e"," ",
                   "c","a","t","e","g","o","r","y"," ","f","i","r","s","t",
                   ","," ","f","o","r"," ","e","x","a","m","p","l","e"," ",
                   "\"","M","o","s","t"," ","i","m","p","r","e","s","s","i",
                   "v","e"," ","s","k","i","l","l","\"">>,
                 NoMarkup),
           TYPING_CHOICE)

\* Defined by the source but registered for no state.
received_information(d, text) ==
    LET category == DictGet(d, ChoiceKey)
        stored == DictDel(DictSet(d, category, text), ChoiceKey)
    IN  Result(stored,
               Reply(<<"N","e","a","t","!"," ","J","u","s","t"," ","s","o",
                       " ","y","o","u"," ","k","n","o","w",","," ","t","h",
                       "i","s"," ","i","s"," ","w","h","a","t"," ","y","o",
                       "u"," ","a","l","r","e","a","d","y"," ","t","o","l",
                       "d"," ","m","e",":">>
                     \o facts_to_str(stored)
                     \o <<"Y","o","u"," ","c","a","n"," ","t","e","l","l"," ",
                          "m","e"," ","m","o","r","e",","," ","o","r"," ","c",
                          "h","a","n","g","e"," ","y","o","u","r"," ","o","p",
                          "i","n","i","o","n"," ","o","n"," ","s","o","m","e",
                          "t","h","i","n","g",".">>,
                     markup),
               CHOOSING)

doneShowsChoice(d, text) ==
    Result(<<>>,
           Reply(<<"I"," ","l","e","a","r","n","e","d"," ","t","h","e","s",
                   "e"," ","f","a","c","t","s"," ","a","b","o","u","t"," ",
                   "y","o","u",":"," ">> \o facts_to_str(d)
                 \o <<"U","n","t","i","l"," ","n","e","x","t"," ","t","i","m",
                      "e","!">>, ReplyKeyboardRemove),
           END)

doneKeepsData(d, text) ==
    LET shown == IF HasKey(d, ChoiceKey) THEN DictDel(d, ChoiceKey) ELSE d
    IN  Result(d,
               Reply(<<"I"," ","l","e","a","r","n","e","d"," ","t","h","e",
                       "s","e"," ","f","a","c","t","s"," ","a","b","o","u",
                       "t"," ","y","o","u",":"," ">> \o facts_to_str(shown)
                     \o <<"U","n","t","i","l"," ","n","e","x","t"," ","t","i",
                          "m","e","!">>, ReplyKeyboardRemove),
               END)

done(d, text) ==
    LET shown == IF HasKey(d, ChoiceKey) THEN DictDel(d, ChoiceKey) ELSE d
    IN  Result(<<>>,
               Reply(<<"I"," ","l","e","a","r","n","e","d"," ","t","h","e",
                       "s","e"," ","f","a","c","t","s"," ","a","b","o","u",
                       "t"," ","y","o","u",":"," ">> \o facts_to_str(shown)
                     \o <<"U","n","t","i","l"," ","n","e","x","t"," ","t","i",
                          "m","e","!">>, ReplyKeyboardRemove),
               END)

---------------------------------------------------------------------------
(* display_lesson_info: the answer of the lesson service and its rendering. *)

ItemKeys == {"name", "dayOfWeek", "startTime", "endTime", "startDate",
             "amountOfLessons", "locationCity", "locationName", "price",
             "trainerName"}

\* The item is rendered if every field the f-string reads is there.
ItemComplete(item) == ItemKeys \subseteq DOMAIN item

ItemBlock(item) ==
    <<"*">> \o item.name \o <<"*","\n">>
    \o item.dayOfWeek \o <<" ">> \o Prefix(item.startTime, 5) \o <<" ","-"," ">>
       \o Prefix(item.endTime, 5) \o NL
    \o <<"S","t","a","r","t","i","n","g",":"," ">> \o Prefix(item.startDate, 10) \o <<" ","(">>
       \o IntToStr(item.amountOfLessons) \o <<"x",")","\n">>
    \o item.locationCity \o <<" ">> \o item.locationName \o NL
    \o <<"P","r","i","c","e",":"," ","€">> \o IntToStr(item.price) \o NL
    \o <<"T","r","a","i","n","e","r",":"," ">> \o item.trainerName \o <<"\n","\n">>

NoOptionsText == <<"N","o"," ","o","p","t","i","o","n","s"," ","f","o","u",
                   "n","d",".",".",".">>

\* line 90
NoItemsMissingOnly(res) == "items" \notin DOMAIN res

NoItems(res) == ("items" \notin DOMAIN res) \/ Len(res.items) = 0

RECURSIVE AnswerBlocksReversed(_)
AnswerBlocksReversed(items) ==
    IF items = <<>> THEN <<>>
    ELSE AnswerBlocksReversed(Tail(items)) \o ItemBlock(Head(items))

\* lines 93-102: answer_text += block, item by item
RECURSIVE AnswerBlocks(_)
AnswerBlocks(items) ==
    IF items = <<>> THEN <<>>
    ELSE ItemBlock(Head(items)) \o AnswerBlocks(Tail(items))

\* lines 90-102, for a parsed JSON object
answer_text(res) == IF NoItems(res) THEN NoOptionsText ELSE AnswerBlocks(res.items)

---------------------------------------------------------------------------
(* What httpx.get and x.json() can produce.                                *)

Item1 ==
    [name |-> <<"B","e","g","i","n","n","e","r","s">>, dayOfWeek |-> <<"W","e","d","n","e","s","d","a","y">>,
     startTime |-> <<"1","9",":","0","0",":","0","0">>, endTime |-> <<"2","0",":","0","0",":","0","0">>,
     startDate |-> <<"2","0","2","5","-","0","1","-","0","8","T","0","0",":",
                     "0","0",":","0","0">>, amountOfLessons |-> 10,
     locationCity |-> <<"D","e","l","f","t">>, locationName |-> <<"P","a","d","e","l"," ","C","l","u","b">>,
     price |-> 150, trainerName |-> <<"J","a","n">>]

Item2 ==
    [name |-> <<"A","d","v","a","n","c","e","d">>, dayOfWeek |-> <<"T","h","u","r","s","d","a","y">>,
     startTime |-> <<"0","9",":","3","0",":","0","0">>, endTime |-> <<"1","1",":","0","0",":","0","0">>,
     startDate |-> <<"2","0","2","4","-","1","2","-","0","5","T","0","0",":",
                     "0","0",":","0","0">>, amountOfLessons |-> 8,
     locationCity |-> <<"D","e","n"," ","H","a","a","g">>, locationName |-> <<"A","r","e","n","a">>,
     price |-> 95, trainerName |-> <<"E","v","a">>]

\* an item of the answer that lacks a field the rendering reads
ItemNoPrice ==
    [name |-> <<"K","i","d","s">>, dayOfWeek |-> <<"W","e","d","n","e","s","d","a","y">>,
     startTime |-> <<"1","6",":","0","0",":","0","0">>, endTime |-> <<"1","7",":","0","0",":","0","0">>,
     startDate |-> <<"2","0","2","5","-","0","2","-","0","5","T","0","0",":",
                     "0","0",":","0","0">>, amountOfLessons |-> 6,
     locationCity |-> <<"D","e","l","f","t">>, locationName |-> <<"P","a","d","e","l"," ","C","l","u","b">>,
     trainerName |-> <<"J","a","n">>]

Offerings == {Item1, Item2}
Items == Offerings \cup {ItemNoPrice}
ItemLists == UNION {[1..n -> Items] : n \in 0..MaxItems}

InvalidBody == [kind |-> "invalid", val |-> [none |-> TRUE]]
NullBody == [kind |-> "null", val |-> [none |-> TRUE]]
ObjectBody(val) == [kind |-> "object", val |-> val]
ErrorObject == [message |-> <<"I","n","t","e","r","n","a","l"," ","S","e","r",
                              "v","e","r"," ","E","r","r","o","r">>]

\* x: the status line and the body of the answer; the code never reads the status
Responses ==
    {[status |-> 200, body |-> ObjectBody([items |-> l])] : l \in ItemLists}
    \cup {[status |-> 200, body |-> ObjectBody([totalCount |-> 0])],
          [status |-> 200, body |-> InvalidBody],
          [status |-> 200, body |-> NullBody],
          [status |-> 500, body |-> ObjectBody(ErrorObject)],
          [status |-> 404, body |-> InvalidBody]}

\* x.json() raises on a body that is not JSON; nothing else is checked
JsonRaises(x) == x.body.kind = "invalid"

\* lines 90-102 raise on a value that is not an object, and on an item that
\* lacks a field
RenderRaises(x) ==
    \/ x.body.kind # "object"
    \/ /\ ~NoItems(x.body.val)
       /\ \E i \in 1..Len(x.body.val.items) : ~ItemComplete(x.body.val.items[i])

LessonRaises(x) == JsonRaises(x) \/ RenderRaises(x)

display_lesson_infoStores(d, x) ==
    Result(DictSet(d, <<"l","e","s","s","o","n","s">>, answer_text(x.body.val)),
           Reply(answer_text(x.body.val), markup), CHOOSING)

\* lines 104-110, once the answer is rendered
display_lesson_info(d, x) ==
    Result(d, Reply(answer_text(x.body.val), markup), CHOOSING)

---------------------------------------------------------------------------
(* The handler table of main().  A filter is a command name or a regular   *)
(* expression; every expression of the table is "^(a|b|...)$", kept as the *)
(* list of its alternatives, in which an unescaped "." stands for any      *)
(* character but a newline.                                                *)

Command(name, callback) == [filter |-> "command", arg |-> <<name>>, callback |-> callback]
Regex(alts, callback) == [filter |-> "regex", arg |-> alts, callback |-> callback]

entry_points == <<Command(<<"s","t","a","r","t">>, "start")>>

statesAllWired ==
    [s \in {CHOOSING, TYPING_CHOICE, TYPING_REPLY} |->
        CASE s = CHOOSING ->
               <<Regex(<<<<"A","g","e">>, <<"F","a","v","o","u","r","i","t","e"," ",
                                    "c","o","l","o","u","r">>, <<"N","u","m","b","e","r"," ","o","f"," ",
                                                          "s","i","b","l","i","n","g","s">>>>,
                       "regular_choice"),
                 Regex(<<<<"P","a","d","e","l"," ","l","e","s","s","o","n","s">>>>, "display_lesson_info"),
                 Regex(<<<<"S","o","m","e","t","h","i","n","g"," ","e","l",
                           "s","e",".",".",".">>>>, "custom_choice")>>
          [] s = TYPING_CHOICE -> <<[filter |-> "text", arg |-> <<>>, callback |-> "regular_choice"]>>
          [] s = TYPING_REPLY -> <<[filter |-> "text", arg |-> <<>>, callback |-> "received_information"]>>]

states ==
    [s \in {CHOOSING} |->
        <<Regex(<<<<"A","g","e">>, <<"F","a","v","o","u","r","i","t","e"," ","c","o",
                             "l","o","u","r">>, <<"N","u","m","b","e","r"," ","o","f"," ",
                                                   "s","i","b","l","i","n","g","s">>>>,
                "regular_choice"),
          Regex(<<<<"P","a","d","e","l"," ","l","e","s","s","o","n","s">>>>, "display_lesson_info"),
          Regex(<<<<"S","o","m","e","t","h","i","n","g"," ","e","l","s","e",
                    ".",".",".">>>>, "custom_choice")>>]

fallbacks == <<Regex(<<<<"E","x","i","t">>>>, "done")>>

\* "^alt": the end of the text is not looked at
MatchAltPrefix(alt, text) ==
    /\ Len(text) >= Len(alt)
    /\ \A i \in 1..Len(alt) :
          \/ alt[i] = text[i]
          \/ alt[i] = "." /\ text[i] # "\n"

\* "^alt$": alt from the first character on, up to the end of the text or to
\* a newline that ends it
MatchAlt(alt, text) ==
    /\ \/ Len(text) = Len(alt)
       \/ Len(text) = Len(alt) + 1 /\ text[Len(text)] = "\n"
    /\ \A i \in 1..Len(alt) :
          \/ alt[i] = text[i]
          \/ alt[i] = "." /\ text[i] # "\n"

\* the command of a message: the word after the leading "/", up to a space
CommandWord(text) ==
    LET stops == {i \in 2..Len(text) : text[i] = " "}
        last == IF stops = {} THEN Len(text)
                ELSE (CHOOSE i \in stops : \A j \in stops : i <= j) - 1
    IN  SubSeq(text, 2, last)

IsCommandText(text) == Len(text) > 1 /\ text[1] = "/"

\* filters.TEXT & ~(filters.COMMAND | filters.Regex("^Exit$"))
PlainText(text) == ~IsCommandText(text) /\ ~MatchAlt(<<"E","x","i","t">>, text)

Accepts(h, text) ==
    CASE h.filter = "command" ->
            IsCommandText(text) /\ Lower(CommandWord(text)) = h.arg[1]
      [] h.filter = "regex" ->
            \E i \in 1..Len(h.arg) : MatchAlt(h.arg[i], text)
      [] h.filter = "text" -> PlainText(text)

Matching(handlers, text) == {i \in 1..Len(handlers) : Accepts(handlers[i], text)}

FirstMatch(handlers, text) ==
    handlers[CHOOSE i \in Matching(handlers, text) :
                \A j \in Matching(handlers, text) : i <= j].callback

\* the fallbacks are tried even when the user has no conversation
check_updateFallbackAlways(state, text) ==
    LET handlers == IF state \in DOMAIN states THEN states[state] ELSE <<>> IN
    IF state = END /\ Matching(entry_points, text) # {}
    THEN FirstMatch(entry_points, text)
    ELSE IF state # END /\ Matching(handlers, text) # {}
    THEN FirstMatch(handlers, text)
    ELSE IF Matching(fallbacks, text) # {} THEN FirstMatch(fallbacks, text)
    ELSE "none"

\* allow_reentry=True: the entry points are tried in every state
check_updateReentry(state, text) ==
    IF Matching(entry_points, text) # {} THEN FirstMatch(entry_points, text)
    ELSE IF state = END THEN "none"
    ELSE LET handlers == IF state \in DOMAIN states THEN states[state] ELSE <<>>
         IN  IF Matching(handlers, text) # {} THEN FirstMatch(handlers, text)
             ELSE IF Matching(fallbacks, text) # {} THEN FirstMatch(fallbacks, text)
             ELSE "none"

\* ConversationHandler: with no conversation only the entry points are
\* tried; otherwise the handlers of the current state, then the fallbacks
check_update(state, text) ==
    IF state = END
    THEN IF Matching(entry_points, text) # {}
         THEN FirstMatch(entry_points, text) ELSE "none"
    ELSE LET handlers == IF state \in DOMAIN states THEN states[state] ELSE <<>>
         IN  IF Matching(handlers, text) # {} THEN FirstMatch(handlers, text)
             ELSE IF Matching(fallbacks, text) # {} THEN FirstMatch(fallbacks, text)
             ELSE "none"

Call(callback, d, text) ==
    CASE callback = "start" -> start(d, text)
      [] callback = "regular_choice" -> regular_choice(d, text)
      [] callback = "custom_choice" -> custom_choice(d, text)
      [] callback = "received_information" -> received_information(d, text)
      [] callback = "done" -> done(d, text)

---------------------------------------------------------------------------
(* The messages users send.                                                *)

StartText == <<"/","s","t","a","r","t">>
ExitText == <<"E","x","i","t">>
LessonsText == <<"P","a","d","e","l"," ","l","e","s","s","o","n","s">>
Categories == {<<"A","g","e">>, <<"F","a","v","o","u","r","i","t","e"," ","c","o","l",
                          "o","u","r">>, <<"N","u","m","b","e","r"," ","o","f"," ",
                                                "s","i","b","l","i","n","g","s">>}
SomethingElseText == <<"S","o","m","e","t","h","i","n","g"," ","e","l","s",
                       "e",".",".",".">>
SomethingElseLike == <<"S","o","m","e","t","h","i","n","g"," ","e","l","s",
                       "e","?","!","?">>
Unrecognized == {<<"b","a","n","a","n","a">>, <<"E","x","i","t"," ","n","o","w">>, <<"a","g","e">>}

Texts ==
    {StartText, ExitText, LessonsText, SomethingElseText, SomethingElseLike}
    \cup Categories \cup Unrecognized

---------------------------------------------------------------------------
(* The state machine.                                                      *)

\* no answer of the lesson service was received in the turn
NoAnswer == [status |-> 0, body |-> NullBody]

NoTurn ==
    [user |-> 0, text |-> <<>>, callback |-> "none", outcome |-> "idle",
     answer |-> NoAnswer]
Turn(u, text, callback, outcome) ==
    [user |-> u, text |-> text, callback |-> callback, outcome |-> outcome,
     answer |-> NoAnswer]

NotRendered == [done |-> FALSE, text |-> <<>>]

Init ==
    /\ conversations = [u \in Users |-> END]
    /\ user_data = [u \in Users |-> <<>>]
    /\ inflight = {}
    /\ turn = NoTurn
    /\ sent = <<>>
    /\ started = {}
    /\ fmt_in = <<>>
    /\ fmt_out = NotRendered

SharedSessionKey(u) == 1

\* context.user_data and the conversation state are kept per user: the
\* framework picks both by the id of the user who sent the update
SessionKey(u) == u

LoopAlwaysFree == TRUE

\* httpx.get is a blocking call made on the event loop, and updates are
\* processed one after the other: nothing else runs until it returns
LoopIdle == inflight = {}

\* No handler accepts the update: it is dropped.
Unmatched(u, text) ==
    /\ LoopIdle
    /\ check_update(conversations[SessionKey(u)], text) = "none"
    /\ turn' = Turn(u, text, "none", "ignored")
    /\ sent' = <<>>
    /\ UNCHANGED <<conversations, user_data, inflight, started, fmt_in, fmt_out>>

\* start, regular_choice, custom_choice or done handles the update.
Handle(u, text) ==
    LET callback == check_update(conversations[SessionKey(u)], text) IN
    /\ LoopIdle
    /\ callback \notin {"none", "display_lesson_info"}
    /\ LET r == Call(callback, user_data[SessionKey(u)], text) IN
         /\ user_data' = [user_data EXCEPT ![SessionKey(u)] = r.data]
         /\ conversations' = [conversations EXCEPT ![SessionKey(u)] = r.ret]
         /\ sent' = <<r.reply>>
    /\ turn' = Turn(u, text, callback, "returned")
    /\ started' = IF callback = "start" THEN started \cup {u} ELSE started
    /\ UNCHANGED <<inflight, fmt_in, fmt_out>>

\* display_lesson_info up to line 87: the GET is sent.
BeginLessonQuery(u, text) ==
    /\ LoopIdle
    /\ check_update(conversations[SessionKey(u)], text) = "display_lesson_info"
    /\ inflight' = inflight \cup {u}
    /\ turn' = Turn(u, text, "display_lesson_info", "awaiting")
    /\ sent' = <<>>
    /\ UNCHANGED <<conversations, user_data, started, fmt_in, fmt_out>>

HttpFailsEndsConversation(u) ==
    /\ u \in inflight
    /\ inflight' = inflight \ {u}
    /\ turn' = [turn EXCEPT !.outcome = "raised"]
    /\ conversations' = [conversations EXCEPT ![SessionKey(u)] = END]
    /\ UNCHANGED <<user_data, sent, started, fmt_in, fmt_out>>

\* httpx.get raises (no connection, a timeout): the handler raises with it.
HttpFails(u) ==
    /\ u \in inflight
    /\ inflight' = inflight \ {u}
    /\ turn' = [turn EXCEPT !.outcome = "raised"]
    /\ UNCHANGED <<conversations, user_data, sent, started, fmt_in, fmt_out>>

\* httpx.get returns x: lines 88-110.
HttpResponds(u, x) ==
    /\ u \in inflight
    /\ inflight' = inflight \ {u}
    /\ IF LessonRaises(x)
       THEN /\ turn' = [turn EXCEPT !.outcome = "raised", !.answer = x]
            /\ UNCHANGED <<conversations, user_data, sent>>
       ELSE LET r == display_lesson_info(user_data[SessionKey(u)], x) IN
            /\ user_data' = [user_data EXCEPT ![SessionKey(u)] = r.data]
            /\ conversations' = [conversations EXCEPT ![SessionKey(u)] = r.ret]
            /\ sent' = <<r.reply>>
            /\ turn' = [turn EXCEPT !.outcome = "returned", !.answer = x]
    /\ UNCHANGED <<started, fmt_in, fmt_out>>

Next ==
    \/ \E u \in Users, text \in Texts : Unmatched(u, text)
    \/ \E u \in Users, text \in Texts : Handle(u, text)
    \/ \E u \in Users, text \in Texts : BeginLessonQuery(u, text)
    \/ \E u \in Users : HttpFails(u)
    \/ \E u \in Users, x \in Responses : HttpResponds(u, x)

Spec == Init /\ [][Next]_vars

---------------------------------------------------------------------------
(* The formatter on its own: facts_to_str applied to every small dict.     *)

FactValues == {<<"1","0">>, <<"b","l","u","e">>, <<"2">>}
FactPairs == {<<k, v>> : k \in Categories, v \in FactValues}

\* dicts of at most MaxFacts facts: distinct keys, any order
FactDicts ==
    {d \in UNION {[1..n -> FactPairs] : n \in 0..MaxFacts} :
        \A i, j \in 1..Len(d) : i # j => d[i][1] # d[j][1]}

InitRender ==
    /\ conversations = [u \in Users |-> END]
    /\ user_data = [u \in Users |-> <<>>]
    /\ inflight = {}
    /\ turn = NoTurn
    /\ sent = <<>>
    /\ started = {}
    /\ fmt_in \in FactDicts
    /\ fmt_out = NotRendered

Render ==
    /\ ~fmt_out.done
    /\ fmt_out' = [done |-> TRUE, text |-> facts_to_str(fmt_in)]
    /\ UNCHANGED <<conversations, user_data, inflight, turn, sent, started, fmt_in>>

NextRender == Render

SpecRender == InitRender /\ [][NextRender]_vars

---------------------------------------------------------------------------
(* Helpers of the properties.                                              *)

\* An update with this text, sent by u, is taken from the queue.
Delivered(u, text) ==
    Unmatched(u, text) \/ Handle(u, text) \/ BeginLessonQuery(u, text)

Active(u) == conversations[u] \in {CHOOSING, TYPING_REPLY, TYPING_CHOICE}

\* text.split("\n")
RECURSIVE SplitLines(_)
SplitLines(s) ==
    IF \A i \in 1..Len(s) : s[i] # "\n" THEN <<s>>
    ELSE LET nl == CHOOSE i \in 1..Len(s) :
                      s[i] = "\n" /\ \A j \in 1..(i - 1) : s[j] # "\n"
         IN  <<SubSeq(s, 1, nl - 1)>> \o SplitLines(SubSeq(s, nl + 1, Len(s)))

StartsWith(s, p) == Len(s) >= Len(p) /\ SubSeq(s, 1, Len(p)) = p

LessonTurnReturned ==
    turn.callback = "display_lesson_info" /\ turn.outcome = "returned"

---------------------------------------------------------------------------
(* C1: in every state of an active conversation (Choosing, TypingReply,    *)
(* TypingChoice) a message "Exit" is handled by the termination handler:   *)
(* the one reply is "I learned these facts about you: ", the rendered      *)
(* facts (the pending choice left out) and "Until next time!"; afterwards  *)
(* the user's store holds neither facts nor a pending choice and the       *)
(* conversation has ended.                                                 *)
C1_ExitTerminates ==
    [][\A u \in Users :
          (Active(u) /\ Delivered(u, ExitText)) =>
             /\ turn'.callback = "done"
             /\ Len(sent') = 1
             /\ sent'[1].text = <<"I"," ","l","e","a","r","n","e","d"," ","t",
                                  "h","e","s","e"," ","f","a","c","t","s"," ",
                                  "a","b","o","u","t"," ","y","o","u",":"," ">>
                                \o facts_to_str(facts(u)) \o <<"U","n","t","i","l"," ","n","e","x","t",
                                                               " ","t","i","m","e","!">>
             /\ user_data'[u] = <<>>
             /\ conversations'[u] = END]_vars

\* Exit was handled: the reply is the one of an empty store, the store is
\* empty and the conversation is over.
C1_Witness ==
    /\ turn.callback = "done"
    /\ turn.text = ExitText
    /\ sent = <<Reply(<<"I"," ","l","e","a","r","n","e","d"," ","t","h","e",
                        "s","e"," ","f","a","c","t","s"," ","a","b","o","u",
                        "t"," ","y","o","u",":"," ","\n","\n","U","n","t","i",
                        "l"," ","n","e","x","t"," ","t","i","m","e","!">>,
                      ReplyKeyboardRemove)>>
    /\ user_data[turn.user] = <<>>
    /\ conversations[turn.user] = END

---------------------------------------------------------------------------
(* C2 as stated: no session is ever in TypingReply or TypingChoice.        *)
C2_NeverTyping ==
    \A u \in Users : conversations[u] \notin {TYPING_REPLY, TYPING_CHOICE}

(* C2, amended: a session enters TypingReply only from Choosing, when      *)
(* regular_choice handles one of the three predefined categories, and      *)
(* TypingChoice only from Choosing, when custom_choice handles a message   *)
(* that matches "^Something else...$"; no other step enters either state,  *)
(* and no state other than Choosing, TypingReply, TypingChoice and the     *)
(* ended conversation is ever taken.                                       *)
C2_TypingOnlyFromChoosing ==
    [][\A u \in Users :
          /\ conversations'[u] \in {END, CHOOSING, TYPING_REPLY, TYPING_CHOICE}
          /\ (conversations'[u] = TYPING_REPLY /\ conversations[u] # TYPING_REPLY) =>
                /\ conversations[u] = CHOOSING
                /\ turn' = Turn(u, turn'.text, "regular_choice", "returned")
                /\ turn'.text \in Categories
          /\ (conversations'[u] = TYPING_CHOICE /\ conversations[u] # TYPING_CHOICE) =>
                /\ conversations[u] = CHOOSING
                /\ turn' = Turn(u, turn'.text, "custom_choice", "returned")
                /\ MatchAlt(SomethingElseText, turn'.text)]_vars

\* one session waits in TypingReply while another waits in TypingChoice
C2_Witness ==
    \E u, v \in Users :
        conversations[u] = TYPING_REPLY /\ conversations[v] = TYPING_CHOICE

---------------------------------------------------------------------------
(* C3: whenever a user's pending choice is set, the category it names is   *)
(* not a key of that user's facts.                                         *)
C3_PendingChoiceNotAFact ==
    \A u \in Users : HasPendingChoice(u) => pendingChoice(u) \notin FactKeys(u)

\* a pending choice is set
C3_Witness ==
    \E u \in Users : HasPendingChoice(u) /\ pendingChoice(u) \in Categories

---------------------------------------------------------------------------
(* C4: a step changes the facts, the pending choice and the conversation   *)
(* state of no user but the one whose message the step handles.            *)
C4_SessionIsolation ==
    [][\A u \in Users :
          (user_data'[u] # user_data[u] \/ conversations'[u] # conversations[u])
             => turn'.user = u]_vars

\* two users are in different states of their conversations, one of them
\* with a pending choice, after the other's message was handled
C4_Witness ==
    \E u, v \in Users :
        /\ u # v
        /\ HasPendingChoice(u) /\ conversations[u] = TYPING_REPLY
        /\ turn.user = v /\ turn.outcome = "returned"
        /\ ~HasPendingChoice(v) /\ conversations[v] = CHOOSING

---------------------------------------------------------------------------
(* C5: in Choosing, a text that matches none of the registered patterns    *)
(* ("banana", "Exit now", "age") is dropped: no reply is sent, and the     *)
(* conversation states and the stores stay as they are.                    *)
C5_UnmatchedIsNoOp ==
    [][\A u \in Users, text \in Unrecognized :
          (conversations[u] = CHOOSING /\ Delivered(u, text)) =>
             /\ turn'.outcome = "ignored"
             /\ sent' = <<>>
             /\ conversations' = conversations
             /\ user_data' = user_data
             /\ inflight' = inflight]_vars

\* "banana" was dropped while its sender was in Choosing
C5_Witness ==
    /\ turn.outcome = "ignored"
    /\ turn.text = <<"b","a","n","a","n","a">>
    /\ conversations[turn.user] = CHOOSING
    /\ sent = <<>>

---------------------------------------------------------------------------
(* C6: "Padel lessons" in Choosing goes to the lesson query; the query     *)
(* writes nothing to any store, and when it answers, the one reply is the  *)
(* rendered result with the menu and the session is in Choosing again.  A  *)
(* session whose conversation has ended holds no data.                     *)
C6_LessonQueryWritesNothing ==
    /\ [](\A u \in Users : conversations[u] = END => user_data[u] = <<>>)
    /\ [][/\ \A u \in Users :
                (conversations[u] = CHOOSING /\ Delivered(u, LessonsText)) =>
                   turn' = Turn(u, LessonsText, "display_lesson_info", "awaiting")
          /\ turn'.callback = "display_lesson_info" =>
                /\ user_data' = user_data
                /\ conversations' = conversations
                /\ turn'.outcome = "returned" =>
                      /\ conversations'[turn'.user] = CHOOSING
                      /\ sent' = <<Reply(answer_text(turn'.answer.body.val), markup)>>]_vars

\* a lesson query was answered with one block; nothing was stored
C6_Witness ==
    /\ LessonTurnReturned
    /\ turn.text = LessonsText
    /\ sent = <<Reply(ItemBlock(Item2), markup)>>
    /\ conversations[turn.user] = CHOOSING
    /\ user_data[turn.user] = <<>>

---------------------------------------------------------------------------
(* C7 as stated: an answer of the lesson service that is an error (a       *)
(* status outside 200..299, or a body that is not JSON) makes the handler  *)
(* fail: it does not return and sends no reply.                            *)
UpstreamError(x) == x.status \notin 200..299 \/ x.body.kind = "invalid"

C7_UpstreamErrorsPropagate ==
    (turn.callback = "display_lesson_info" /\ turn.answer # NoAnswer
        /\ UpstreamError(turn.answer))
    => (turn.outcome = "raised" /\ sent = <<>>)

---------------------------------------------------------------------------
(* C8: for a parsed answer without an "items" key or with an empty "items" *)
(* list the handler replies exactly "No options found..."; for a non-empty *)
(* list it never replies that text.                                        *)
C8_NoOptionsIffNoItems ==
    (turn.callback = "display_lesson_info" /\ turn.answer.body.kind = "object") =>
        LET res == turn.answer.body.val
            none == "items" \notin DOMAIN res \/ res.items = <<>>
        IN  /\ none => /\ turn.outcome = "returned"
                       /\ sent = <<Reply(<<"N","o"," ","o","p","t","i","o","n","s",
                                           " ","f","o","u","n","d",".",".",".">>, markup)>>
            /\ (~none /\ turn.outcome = "returned") =>
                   sent[1].text # <<"N","o"," ","o","p","t","i","o","n","s",
                                    " ","f","o","u","n","d",".",".",".">>

\* an answer with an empty list got the fallback text
C8_Witness ==
    /\ LessonTurnReturned
    /\ turn.answer.body = ObjectBody([items |-> <<>>])
    /\ sent = <<Reply(<<"N","o"," ","o","p","t","i","o","n","s"," ","f","o",
                        "u","n","d",".",".",".">>, markup)>>

---------------------------------------------------------------------------
(* C9: for a non-empty list of offerings the reply, cut at its newlines,   *)
(* is seven lines per item, in the order of the list: the i-th block opens *)
(* with the name of the i-th item between asterisks, its fifth line starts *)
(* with "Price: €", its sixth names the item's trainer and its seventh is  *)
(* blank; nothing follows the last block.                                  *)
C9_OneBlockPerItemInOrder ==
    (LessonTurnReturned /\ ~NoItems(turn.answer.body.val)) =>
        LET items == turn.answer.body.val.items
            lines == SplitLines(sent[1].text)
        IN  /\ Len(lines) = 7 * Len(items) + 1
            /\ lines[Len(lines)] = <<>>
            /\ \A i \in 1..Len(items) :
                  LET at == 7 * (i - 1) IN
                  /\ lines[at + 1] = <<"*">> \o items[i].name \o <<"*">>
                  /\ StartsWith(lines[at + 2], items[i].dayOfWeek)
                  /\ StartsWith(lines[at + 5], <<"P","r","i","c","e",":"," ","€">>)
                  /\ lines[at + 6] = <<"T","r","a","i","n","e","r",":"," ">> \o items[i].trainerName
                  /\ lines[at + 7] = <<>>

\* two different offerings, not in alphabetical order, were rendered
C9_Witness ==
    /\ LessonTurnReturned
    /\ turn.answer.body.val.items = <<Item1, Item2>>
    /\ sent[1].text = ItemBlock(Item1) \o ItemBlock(Item2)

---------------------------------------------------------------------------
(* C10: facts_to_str renders a dict as a newline, the "category - value"   *)
(* lines in insertion order with one newline between them, and a newline:  *)
(* cut at its newlines the text is an empty piece, the lines (one empty    *)
(* piece for the empty dict) and an empty piece.  The empty dict renders   *)
(* as two newlines, {"Age": "10"} as newline, "Age - 10", newline.         *)
C10_RenderWrapsBlockOnce ==
    fmt_out.done =>
        /\ SplitLines(fmt_out.text) =
              << <<>> >>
              \o (IF fmt_in = <<>> THEN << <<>> >>
                  ELSE [i \in 1..Len(fmt_in) |->
                           fmt_in[i][1] \o <<" ", "-", " ">> \o fmt_in[i][2]])
              \o << <<>> >>
        /\ fmt_in = <<>> => fmt_out.text = <<"\n", "\n">>
        /\ fmt_in = << <<<<"A","g","e">>, <<"1","0">>>> >> => fmt_out.text = <<"\n","A","g","e"," ","-"," ","1","0",
                                                                  "\n">>

\* two facts were rendered, the later key first in the alphabet
C10_Witness ==
    /\ fmt_out.done
    /\ fmt_in = << <<<<"F","a","v","o","u","r","i","t","e"," ","c","o","l",
                       "o","u","r">>, <<"b","l","u","e">>>>, <<<<"A","g","e">>, <<"1","0">>>> >>
    /\ fmt_out.text = <<"\n","F","a","v","o","u","r","i","t","e"," ","c","o",
                        "l","o","u","r"," ","-"," ","b","l","u","e","\n","A",
                        "g","e"," ","-"," ","1","0","\n">>

---------------------------------------------------------------------------
(* Helpers of the properties on dropped updates.                           *)

\* the step handles nothing: no handler ran, no reply, nothing changed
Dropped ==
    /\ turn'.outcome = "ignored"
    /\ sent' = <<>>
    /\ conversations' = conversations
    /\ user_data' = user_data
    /\ inflight' = inflight

Typing(u) == conversations[u] \in {TYPING_REPLY, TYPING_CHOICE}

---------------------------------------------------------------------------
(* C11: when a user with no conversation sends the start command, the one  *)
(* reply is the greeting with the menu of two rows, "Padel lessons" and    *)
(* "Exit"; the user's conversation is in Choosing and no store changed.    *)
C11_StartGreetsAndEntersChoosing ==
    [][\A u \in Users :
          (conversations[u] = END /\ Delivered(u, StartText)) =>
             /\ turn' = Turn(u, StartText, "start", "returned")
             /\ sent' = <<[text |-> <<"H","i",","," ","w","h","a","t"," ","w",
                                      "o","u","l","d"," ","y","o","u"," ","l",
                                      "i","k","e"," ","t","o"," ","k","n","o",
                                      "w","?">>,
                           reply_markup |->
                              [kind |-> "ReplyKeyboardMarkup",
                               keyboard |-> << <<<<"P","a","d","e","l"," ","l","e","s","s",
                                                   "o","n","s">>>>,
                                               <<<<"E","x","i","t">>>> >>]]>>
             /\ conversations'[u] = CHOOSING
             /\ user_data' = user_data]_vars

\* the start command was answered and its sender is in Choosing
C11_Witness ==
    /\ turn.callback = "start"
    /\ turn.text = StartText
    /\ Len(sent) = 1
    /\ sent[1].text = <<"H","i",","," ","w","h","a","t"," ","w","o","u","l",
                        "d"," ","y","o","u"," ","l","i","k","e"," ","t","o",
                        " ","k","n","o","w","?">>
    /\ conversations[turn.user] = CHOOSING
    /\ user_data[turn.user] = <<>>

---------------------------------------------------------------------------
(* C12: in TypingReply and in TypingChoice every message but "Exit" is     *)
(* dropped (no reply; state, facts and pending choice as before), and the  *)
(* only step that leaves either state is the Exit fallback, which ends the *)
(* conversation.                                                           *)
C12_TypingStallsUntilExit ==
    [][\A u \in Users :
          /\ \A text \in Texts \ {ExitText} :
                (Typing(u) /\ Delivered(u, text)) => Dropped
          /\ (Typing(u) /\ conversations'[u] # conversations[u]) =>
                /\ turn' = Turn(u, ExitText, "done", "returned")
                /\ conversations'[u] = END]_vars

\* a plain text was dropped in TypingReply, the pending choice still set
C12_Witness ==
    /\ turn.outcome = "ignored"
    /\ turn.text = <<"b","a","n","a","n","a">>
    /\ conversations[turn.user] = TYPING_REPLY
    /\ HasPendingChoice(turn.user)
    /\ sent = <<>>

---------------------------------------------------------------------------
(* C13: once a conversation has ended, every text of its user but the      *)
(* start command is dropped (no reply, the store stays empty); the start   *)
(* command begins a new conversation.                                      *)
C13_EndedIsNotRouted ==
    [][\A u \in Users :
          /\ \A text \in Texts \ {StartText} :
                (conversations[u] = END /\ u \in started /\ Delivered(u, text)) =>
                   (Dropped /\ user_data'[u] = <<>>)
          /\ (conversations[u] = END /\ conversations'[u] # END) =>
                turn' = Turn(u, StartText, "start", "returned")]_vars

\* after start and Exit, a second "Exit" was dropped
C13_Witness ==
    /\ turn.outcome = "ignored"
    /\ turn.text = ExitText
    /\ turn.user \in started
    /\ conversations[turn.user] = END
    /\ user_data[turn.user] = <<>>
    /\ sent = <<>>

---------------------------------------------------------------------------
(* C14 as stated: custom_choice runs, and TypingChoice is entered, only on *)
(* the exact text "Something else..."; a text that differs from it in the  *)
(* last three characters is dropped.                                       *)
C14_OnlyExactSomethingElse ==
    /\ turn.callback = "custom_choice" => turn.text = SomethingElseText
    /\ turn.text = SomethingElseLike => (turn.outcome = "ignored" /\ sent = <<>>)

---------------------------------------------------------------------------
(* C15: at most one HTTP GET is in flight, over all sessions, and while    *)
(* one is, the turn that sent it is the current turn, has not returned and *)
(* has sent no reply.                                                      *)
C15_OneCallInFlight ==
    /\ Cardinality(inflight) <= 1
    /\ \A u \in inflight :
          /\ turn = Turn(u, LessonsText, "display_lesson_info", "awaiting")
          /\ sent = <<>>

\* a GET is in flight while another user is in a conversation of their own
C15_Witness ==
    \E u, v \in Users :
        /\ u # v
        /\ inflight = {u}
        /\ turn.outcome = "awaiting"
        /\ conversations[v] = CHOOSING

---------------------------------------------------------------------------
(* C16 as stated: while the GET of one session's turn is in flight, the    *)
(* turn has not completed and a message of any other session can be        *)
(* handled before the call resolves.                                       *)
C16_WaitingDoesNotBlockOthers ==
    \A u \in inflight :
        /\ turn.outcome = "awaiting"
        /\ \A v \in Users \ {u} : ENABLED Delivered(v, StartText)

---------------------------------------------------------------------------
(* C17: no handler that can run writes a fact: the facts of every user are *)
(* empty in every state, and every reply of the termination handler is     *)
(* exactly "I learned these facts about you: ", two newlines and "Until    *)
(* next time!", also when a category was chosen before.                    *)
C17_NoFactEverWritten ==
    /\ \A u \in Users : facts(u) = <<>>
    /\ turn.callback = "done" =>
          sent = <<Reply(<<"I"," ","l","e","a","r","n","e","d"," ","t","h",
                           "e","s","e"," ","f","a","c","t","s"," ","a","b",
                           "o","u","t"," ","y","o","u",":"," ","\n","\n","U",
                           "n","t","i","l"," ","n","e","x","t"," ","t","i",
                           "m","e","!">>,
                         ReplyKeyboardRemove)>>

\* Exit was answered for one user while another has chosen a category
C17_Witness ==
    \E u, v \in Users :
        /\ turn.callback = "done" /\ turn.user = u
        /\ sent[1].text = <<"I"," ","l","e","a","r","n","e","d"," ","t","h",
                            "e","s","e"," ","f","a","c","t","s"," ","a","b",
                            "o","u","t"," ","y","o","u",":"," ","\n","\n","U",
                            "n","t","i","l"," ","n","e","x","t"," ","t","i",
                            "m","e","!">>
        /\ HasPendingChoice(v) /\ pendingChoice(v) = <<"A","g","e">>
        /\ facts(v) = <<>>

---------------------------------------------------------------------------
(* C18: when the lesson query fails (the call raises, the body is not      *)
(* JSON, or the rendering raises), the turn sends no reply and leaves      *)
(* every store and state as it was, its session in Choosing; after it a    *)
(* "Padel lessons" of that session starts a new query and an "Exit" is     *)
(* handled by the termination handler.                                     *)
C18_FailedQueryChangesNothing ==
    /\ [][turn'.outcome = "raised" =>
             /\ turn'.callback = "display_lesson_info"
             /\ sent' = <<>>
             /\ conversations' = conversations
             /\ user_data' = user_data
             /\ conversations'[turn'.user] = CHOOSING]_vars
    /\ [](turn.outcome = "raised" =>
             /\ ENABLED BeginLessonQuery(turn.user, LessonsText)
             /\ ENABLED (Handle(turn.user, ExitText) /\ turn'.callback = "done"))

\* the call itself failed: no answer, no reply, the session still in Choosing
C18_Witness ==
    /\ turn.outcome = "raised"
    /\ turn.answer = NoAnswer
    /\ sent = <<>>
    /\ conversations[turn.user] = CHOOSING
    /\ inflight = {}

---------------------------------------------------------------------------
(* C19: in an active conversation (Choosing, TypingReply, TypingChoice)    *)
(* the start command is dropped: no greeting, and state, facts and pending *)
(* choice as before.  Before a user's first start command, "Exit" and      *)
(* "Padel lessons" are dropped.                                            *)
C19_StartIsOnlyAnEntryPoint ==
    [][\A u \in Users :
          /\ (Active(u) /\ Delivered(u, StartText)) => Dropped
          /\ \A text \in {ExitText, LessonsText} :
                (u \notin started /\ Delivered(u, text)) => Dropped]_vars

\* the start command was dropped in Choosing
C19_Witness ==
    /\ turn.outcome = "ignored"
    /\ turn.text = StartText
    /\ conversations[turn.user] = CHOOSING
    /\ sent = <<>>

=============================================================================
